---- MODULE Spec2Model ----
(***************************************************************************)
(* A model of the India Breaking News X bot: tweet cleaning and response   *)
(* splitting (src/src/ai_writer.py), the Gemini call chain and the two     *)
(* generators (src/src/ai_writer.py), and thread / standalone publishing   *)
(* (src/src/x_client.py, src/src/main.py), story selection and the         *)
(* headline fetch (src/src/news_client.py) and the token refresh           *)
(* (src/src/x_auth.py, src/src/token_store.py).                            *)
(*                                                                         *)
(* A Python str is a sequence of one-character strings; a character        *)
(* outside ASCII is written "uXXXX" (its code point) and is one element.   *)
(***************************************************************************)
EXTENDS Integers, Sequences, FiniteSets, TLC

VARIABLES
    pc,              \* position of the modelled call
    content,         \* raw text handed to the splitter / cleaner
    expected_count,  \* expected_count argument of _split_tweets_from_response
    split_result,    \* value returned by _split_tweets_from_response
    clean1,          \* a segment cleaned once
    clean2,          \* the same segment cleaned twice
    thread_tweets,   \* run: the thread handed to post_thread
    short_tweets,    \* run: the standalone tweets of step 7
    tweet_ids,       \* post_thread: ids of the tweets posted so far
    thread_ids,      \* run: what post_thread returned, <<>> before
    posted_short_ids,\* run: ids of the standalone tweets posted so far
    i,               \* index of the running loop (post_thread's, then step 7's)
    requests,        \* every POST made by post_tweet, in order, with its result
    timeline,        \* the tweets the platform holds
    error,           \* the exception run's handler caught, NoError before
    exit_status,     \* "running", "0" when run returns, "1" after sys.exit(1)
    raised,          \* what each failed post_thread raised, and its progress then
    calls,           \* invocations of post_thread so far
    big_story,       \* run: the lead story
    supporting_stories, \* run: the supporting stories
    max_tweets,      \* max_tweets of generate_short_tweets_for_supporting_stories
    client_is_set,   \* whether ai_writer's client is a genai.Client (not None)
    prompt,          \* the prompt of the running generator
    tried,           \* _call_gemini_try_variants: the attempts made, in order
    fallbacks,       \* the fallback threads returned, each with its story
    gen_calls,       \* invocations of generate_thread_for_big_story so far
    news_response,   \* how the request of fetch_top_headlines ended, "none" before
    articles,        \* run: what fetch_top_headlines returned
    access_token,    \* run: the access token of this run, None before step 1
    stored_refresh_token, \* Firestore: the refresh_token field of the document
    x_refresh_token, \* the platform: the refresh token it issued last
    refresh_calls    \* invocations of refresh_access_token so far

textVars == <<content, expected_count, split_result, clean1, clean2>>

publishVars == <<thread_tweets, short_tweets, tweet_ids, thread_ids, posted_short_ids,
                 i, requests, timeline, error, exit_status, raised, calls>>

genVars == <<big_story, supporting_stories, max_tweets, client_is_set, prompt, tried,
             fallbacks, gen_calls>>

runVars == <<news_response, articles, access_token, stored_refresh_token, x_refresh_token,
             refresh_calls>>

vars == <<pc, textVars, publishVars, genVars, runVars>>

(***************************************************************************)
(* Characters and elementary string operations                             *)
(***************************************************************************)

\* Characters matched by \s and removed by str.strip().
SpaceChars == {" ", "\t", "\n", "\r", "\f"}

\* Characters matched by \d.
Digits == {"0", "1", "2", "3", "4", "5", "6", "7", "8", "9"}

\* Index of the first character of s[lo..hi] that is in C, hi + 1 when there
\* is none: a search by halves, so that a long text needs a shallow recursion.
RECURSIVE FirstIn(_, _, _, _)
FirstIn(s, C, lo, hi) ==
    IF lo > hi THEN hi + 1
    ELSE IF lo = hi THEN (IF s[lo] \in C THEN lo ELSE hi + 1)
    ELSE LET mid  == (lo + hi) \div 2
             left == FirstIn(s, C, lo, mid)
         IN  IF left <= mid THEN left ELSE FirstIn(s, C, mid + 1, hi)

\* Index of the first character of s[lo..hi] that is not in C, hi + 1 when
\* there is none.
RECURSIVE FirstNotIn(_, _, _, _)
FirstNotIn(s, C, lo, hi) ==
    IF lo > hi THEN hi + 1
    ELSE IF lo = hi THEN (IF s[lo] \notin C THEN lo ELSE hi + 1)
    ELSE LET mid  == (lo + hi) \div 2
             left == FirstNotIn(s, C, lo, mid)
         IN  IF left <= mid THEN left ELSE FirstNotIn(s, C, mid + 1, hi)

\* Index of the last character of s[lo..hi] that is not in C, lo - 1 when
\* there is none.
RECURSIVE LastNotIn(_, _, _, _)
LastNotIn(s, C, lo, hi) ==
    IF lo > hi THEN lo - 1
    ELSE IF lo = hi THEN (IF s[lo] \notin C THEN lo ELSE lo - 1)
    ELSE LET mid   == (lo + hi) \div 2
             right == LastNotIn(s, C, mid + 1, hi)
         IN  IF right > mid THEN right ELSE LastNotIn(s, C, lo, mid)

\* Index of the first character at or after k that is not whitespace
\* (Len(s) + 1 when there is none).
FirstNonSpace(s, k) == FirstNotIn(s, SpaceChars, k, Len(s))

\* Index of the last character at or before k that is not whitespace
\* (0 when there is none).
LastNonSpace(s, k) == LastNotIn(s, SpaceChars, 1, k)

\* Index of the first character at or after k that is not a digit.
FirstNonDigit(s, k) == FirstNotIn(s, Digits, k, Len(s))

\* Index of the first occurrence of character c at or after k
\* (Len(s) + 1 when there is none).
IndexFrom(s, c, k) == FirstIn(s, {c}, k, Len(s))

\* s[k:] in Python, k counted from 1.
Tail_from(s, k) == SubSeq(s, k, Len(s))

\* str.rstrip()
RStrip(s) == SubSeq(s, 1, LastNonSpace(s, Len(s)))

\* str.strip()
Strip(s) == SubSeq(s, FirstNonSpace(s, 1), LastNonSpace(s, Len(s)))

(***************************************************************************)
(* truncate_to_limit and _clean_spaces                                     *)
(***************************************************************************)

MAX_TWEET_CHARS == 260

\* re.sub(r"<[^>]+>", "", text): leftmost, non-overlapping.  A "<" opens a
\* tag when the next character is not ">" and a ">" follows later; the tag
\* ends at the first such ">".
RECURSIVE StripTagsFrom(_, _)
StripTagsFrom(s, k) ==
    LET lt == IndexFrom(s, "<", k)
        gt == IndexFrom(s, ">", lt + 1)
    IN  IF lt > Len(s) THEN SubSeq(s, k, Len(s))
        ELSE IF gt > Len(s) THEN SubSeq(s, k, Len(s))
        ELSE IF gt = lt + 1 THEN SubSeq(s, k, lt) \o StripTagsFrom(s, lt + 1)
        ELSE SubSeq(s, k, lt - 1) \o StripTagsFrom(s, gt + 1)

StripTags(s) == StripTagsFrom(s, 1)

\* Mutant: the cut keeps limit characters.
truncate_to_limit_mutant_cut_at_limit(text, limit) ==
    LET t == Strip(StripTags(text))
    IN  IF Len(t) <= limit THEN t
        ELSE RStrip(SubSeq(t, 1, limit)) \o <<".", ".", ".">>

truncate_to_limit(text, limit) ==
    LET t == Strip(StripTags(text))
    IN  IF Len(t) <= limit THEN t
        ELSE RStrip(SubSeq(t, 1, limit - 3)) \o <<".", ".", ".">>

\* re.sub(r"\s+", " ", text): every maximal whitespace run becomes one space.
RECURSIVE CollapseFrom(_, _)
CollapseFrom(s, k) ==
    LET sp == FirstIn(s, SpaceChars, k, Len(s))
    IN  IF sp > Len(s) THEN SubSeq(s, k, Len(s))
        ELSE SubSeq(s, k, sp - 1) \o <<" ">> \o CollapseFrom(s, FirstNonSpace(s, sp))

_clean_spaces(text) ==
    IF text = <<>> THEN <<>> ELSE Strip(CollapseFrom(text, 1))

(***************************************************************************)
(* _split_tweets_from_response                                             *)
(***************************************************************************)

Lower(c) == IF c = "T" THEN "t" ELSE IF c = "W" THEN "w" ELSE IF c = "E" THEN "e" ELSE c

\* re.sub(r"^Tweet\s*\d+:\s*", "", txt, flags=re.IGNORECASE)
StripTweetLabel(txt) ==
    LET d1 == FirstNonSpace(txt, 6)
        d2 == FirstNonDigit(txt, d1)
    IN  IF /\ Len(txt) >= 5
           /\ [k \in 1..5 |-> Lower(txt[k])] = <<"t", "w", "e", "e", "t">>
           /\ d2 > d1
           /\ d2 <= Len(txt)
           /\ txt[d2] = ":"
        THEN Tail_from(txt, FirstNonSpace(txt, d2 + 1))
        ELSE txt

\* re.sub(r"^\d+\.\s*", "", txt)
StripNumberLabel(txt) ==
    LET d2 == FirstNonDigit(txt, 1)
    IN  IF d2 > 1 /\ d2 <= Len(txt) /\ txt[d2] = "."
        THEN Tail_from(txt, FirstNonSpace(txt, d2 + 1))
        ELSE txt

\* The body of the loop over parts: strip, drop the labels, collapse the
\* whitespace, strip the tags and truncate.
CleanPart(part) ==
    truncate_to_limit(
        _clean_spaces(StripNumberLabel(StripTweetLabel(Strip(part)))),
        MAX_TWEET_CHARS)

\* Index of the last "\n" of s[lo..hi], a run of whitespace; lo - 1 when
\* there is none.
LastNewlineIn(s, lo, hi) == LastNotIn(s, SpaceChars \ {"\n"}, lo, hi)

\* Where a match of \n\s*---\s*\n that starts at k ends, or 0 when none
\* starts there.  The whitespace after the dashes is taken greedily, so the
\* match ends at the last "\n" of that whitespace run.
DelimiterEnd(s, k) ==
    LET d == FirstNonSpace(s, k + 1)
        e == LastNewlineIn(s, d + 3, FirstNonSpace(s, d + 3) - 1)
    IN  IF /\ k <= Len(s)
           /\ s[k] = "\n"
           /\ d + 2 <= Len(s)
           /\ SubSeq(s, d, d + 2) = <<"-", "-", "-">>
           /\ e >= d + 3
        THEN e
        ELSE 0

\* re.split(r"\n\s*---\s*\n", s): the pieces of s[start..] between matches,
\* the scan for the next match standing at k.
RECURSIVE SplitFrom(_, _, _)
SplitFrom(s, start, k) ==
    LET nl == IndexFrom(s, "\n", k)
        e  == DelimiterEnd(s, nl)
    IN  IF nl > Len(s) THEN <<SubSeq(s, start, Len(s))>>
        ELSE IF e > 0 THEN <<SubSeq(s, start, nl - 1)>> \o SplitFrom(s, e + 1, e + 1)
        ELSE SplitFrom(s, start, nl + 1)

SplitOnDelimiter(s) == SplitFrom(s, 1, 1)

\* The loop over parts: the cleaned parts that are not empty, in order.
RECURSIVE CleanedFrom(_, _)
CleanedFrom(parts, k) ==
    IF k > Len(parts) THEN <<>>
    ELSE LET txt == CleanPart(parts[k])
         IN  (IF txt # <<>> THEN <<txt>> ELSE <<>>) \o CleanedFrom(parts, k + 1)

CleanedParts(text) == CleanedFrom(SplitOnDelimiter(Strip(text)), 1)

FILLER_TEXT ==
  <<
    "M","o","r","e"," ","u","p","d","a","t","e","s"," ","o","n"," ","t","h","i","s"," ",
    "s","t","o","r","y"," ","s","o","o","n","."," ","#","I","n","d","i","a"," ","#","N",
    "e","w","s" >>

\* The while loop: append the filler until the list has expected_count entries.
PadWithFiller_mutant_front(cleaned, n) ==
    [k \in 1..(IF n > Len(cleaned) THEN n - Len(cleaned) ELSE 0) |->
        truncate_to_limit(FILLER_TEXT, MAX_TWEET_CHARS)] \o cleaned

PadWithFiller(cleaned, n) ==
    cleaned \o [k \in 1..(IF n > Len(cleaned) THEN n - Len(cleaned) ELSE 0) |->
                    truncate_to_limit(FILLER_TEXT, MAX_TWEET_CHARS)]

\* cleaned[:n] for n >= 0
Prefix_mutant_last(seq, n) ==
    SubSeq(seq, IF n < Len(seq) THEN Len(seq) - n + 1 ELSE 1, Len(seq))

Prefix(seq, n) == SubSeq(seq, 1, IF n < Len(seq) THEN n ELSE Len(seq))

\* Mutant: the cleaned parts are not padded.
_split_tweets_from_response_mutant_no_padding(text, n) ==
    IF text = <<>> THEN <<>>
    ELSE Prefix(CleanedParts(text), n)

_split_tweets_from_response(text, n) ==
    IF text = <<>> THEN <<>>
    ELSE Prefix(PadWithFiller(CleanedParts(text), n), n)

(***************************************************************************)
(* Inputs of the text functions: raw texts built from a few chunks          *)
(***************************************************************************)

\* Most chunks a raw text is built from.
MaxChunks == 3

\* Most delimiter-separated pieces of a raw text built from pieces.
MaxPieces == 3

\* Largest expected_count tried.
MaxExpected == 2

\* How far below MAX_TWEET_CHARS the long run of letters stops.
LongSlack == 4

LongRun == [k \in 1..(MAX_TWEET_CHARS - LongSlack) |-> "x"]

Chunks ==
    { <<"T", "w", "e", "e", "t", " ", "1", ":">>,
      <<"t", "W", "E", "e", "T", "2", ":", " ">>,
      <<"3", ".">>,
      <<" ">>,
      <<"\n">>,
      <<"\n", "-", "-", "-", "\n">>,
      <<"<", "b", ">">>,
      <<" ", "<", "b", ">", " ">>,
      <<"a">> }

Pieces ==
    { <<"a">>,
      <<"T", "w", "e", "e", "t", " ", "1", ":", " ", "b">>,
      <<"<", "i", ">">>,
      <<"2", ".", " ", "c", " ", " ", "d">> }

Delimiters ==
    { <<"\n", "-", "-", "-", "\n">>,
      <<"\n", " ", "-", "-", "-", " ", "\n", "\n">> }

RECURSIVE Concat(_)
Concat(seqs) == IF seqs = <<>> THEN <<>> ELSE Head(seqs) \o Concat(Tail(seqs))

SeqsUpTo(S, n) == UNION {[1..m -> S] : m \in 0..n}

\* Texts made of up to MaxChunks chunks.
ChunkTexts == {Concat(cs) : cs \in SeqsUpTo(Chunks, MaxChunks)}

\* Texts made of 1..MaxPieces pieces with a delimiter between neighbours.
RECURSIVE Join(_, _)
Join(ps, ds) ==
    IF Len(ps) = 1 THEN ps[1]
    ELSE ps[1] \o ds[1] \o Join(Tail(ps), Tail(ds))

PieceTexts ==
    UNION {{Join(ps, ds) : ps \in [1..m -> Pieces], ds \in [1..(m - 1) -> Delimiters]} :
              m \in 1..MaxPieces}

\* Texts near MAX_TWEET_CHARS: the long run after one chunk (or none) and
\* before two chunks (or fewer).
LongTexts == {a \o LongRun \o b \o c : a, b, c \in Chunks \cup {<<>>}}

RawTexts == ChunkTexts \cup PieceTexts \cup LongTexts

(***************************************************************************)
(* post_tweet, post_thread and the standalone loop of run                  *)
(***************************************************************************)

\* No tweet id: Python's None.  The platform's ids count from 1.
None == 0

\* No exception.
NoError == [type |-> "NoError", message |-> <<>>]

\* How one POST to the tweet endpoint can end.  "created": status 200/201
\* with the new tweet's id.  "bad_status": any other status.  "missing_id":
\* status 200/201 and no data.id in the body.  "network_error": the request
\* never reached the platform.  "response_lost": the platform created the
\* tweet and the connection broke before the response arrived.
PostOutcomes == {"created", "bad_status", "missing_id", "network_error", "response_lost"}

\* Whether the platform created a tweet.
CreatesTweet(outcome) == outcome \in {"created", "response_lost"}

\* The exception post_tweet raises for an outcome other than "created".
PostTweetError(outcome) ==
    [type |-> "ValueError",
     message |->
        CASE outcome = "bad_status" -> <<"Failed to post tweet. Status: 403">>
          [] outcome = "missing_id" -> <<"Response missing tweet ID">>
          [] OTHER -> <<"Network error posting tweet">>]

\* The JSON body post_tweet sends: the reply field is set only for a truthy
\* in_reply_to_tweet_id.
Payload(text, in_reply_to_tweet_id) ==
    [text |-> text,
     reply |-> IF in_reply_to_tweet_id # None THEN in_reply_to_tweet_id ELSE None]

\* The headers post_tweet sends: the access token as the bearer.
Headers(token) == [bearer |-> token]

\* post_tweet: the request made and what the caller gets back, either the
\* id (error = NoError) or the exception raised.
post_tweet(token, text, in_reply_to_tweet_id, outcome, new_id) ==
    [request |-> Payload(text, in_reply_to_tweet_id) @@ Headers(token)
                    @@ [outcome |-> outcome],
     id      |-> IF outcome = "created" THEN new_id ELSE None,
     error   |-> IF outcome = "created" THEN NoError ELSE PostTweetError(outcome)]

\* The id the platform gives its next tweet.
NextId(tl) == Len(tl) + 1

\* The platform's timeline after a request.
Publish(tl, call) ==
    IF CreatesTweet(call.request.outcome)
    THEN Append(tl, [id |-> NextId(tl), text |-> call.request.text,
                     reply |-> call.request.reply])
    ELSE tl

\* The in_reply_to_tweet_id of the reply posted after ids: tweet_ids[-1].
ReplyTarget_mutant_root(ids) == ids[1]

ReplyTarget(ids) == ids[Len(ids)]

\* The exception post_thread raises when post_tweet raised cause:
\* ValueError(f"Failed to post thread: {e}").
PostThreadError_mutant_progress(cause, ids) ==
    [type |-> "ValueError",
     message |-> <<"Failed to post thread: ">> \o cause.message
                     \o <<"published", ToString(Len(ids))>>]

PostThreadError(cause, ids) ==
    [type |-> "ValueError",
     message |-> <<"Failed to post thread: ">> \o cause.message]

\* Mutant: the empty list is met inside the try block, where tweets[0]
\* raises and the handler wraps the exception.
EmptyThreadError_mutant_wrapped ==
    [type |-> "ValueError",
     message |-> <<"Failed to post thread: ", "list index out of range">>]

\* raise ValueError("No tweets to post")
EmptyThreadError == [type |-> "ValueError", message |-> <<"No tweets to post">>]

\* post_thread after one post_tweet call in its try block: the id is
\* appended and the loop goes on, or the exception is wrapped and raised.
PostThreadStep_mutant_continue(ids, idx, call) ==
    IF call.error = NoError
    THEN [ids |-> Append(ids, call.id), i |-> idx + 1, raise |-> NoError]
    ELSE IF ids # <<>>
    THEN [ids |-> ids, i |-> idx + 1, raise |-> NoError]
    ELSE [ids |-> ids, i |-> idx, raise |-> PostThreadError(call.error, ids)]

PostThreadStep(ids, idx, call) ==
    IF call.error = NoError
    THEN [ids |-> Append(ids, call.id), i |-> idx + 1, raise |-> NoError]
    ELSE [ids |-> ids, i |-> idx, raise |-> PostThreadError(call.error, ids)]

\* One iteration of run's loop over short_tweets: the id is appended, or
\* post_tweet's exception leaves the loop.
PostShortStep_mutant_continue(ids, idx, call) ==
    IF call.error = NoError
    THEN [ids |-> Append(ids, call.id), i |-> idx + 1, raise |-> NoError]
    ELSE [ids |-> ids, i |-> idx + 1, raise |-> NoError]

PostShortStep(ids, idx, call) ==
    IF call.error = NoError
    THEN [ids |-> Append(ids, call.id), i |-> idx + 1, raise |-> NoError]
    ELSE [ids |-> ids, i |-> idx, raise |-> call.error]

\* Longest thread handed to post_thread.
MaxThreadLen == 5

\* Most standalone tweets handed to the loop of run.
MaxShortLen == 3

\* Most invocations of post_thread observed one after the other.
MaxCalls == 2

\* Tweet texts are told apart by their place in the list.
ThreadInput(n) == [k \in 1..n |-> <<"thread", k>>]

ShortInput(n) == [k \in 1..n |-> <<"short", k>>]

IsThreadRequest(r) == r.text[1] = "thread"

IsShortRequest(r) == r.text[1] = "short"

\* An article as the generators read it: a field that is missing or None
\* reads as the empty str.
Story(title, description, source_name, publishedAt, url) ==
    [title |-> title, description |-> description, source_name |-> source_name,
     publishedAt |-> publishedAt, url |-> url]

\* The generators are not running.
InitGenIdle ==
    /\ big_story = Story(<<>>, <<>>, <<>>, <<>>, <<>>)
    /\ supporting_stories = <<>>
    /\ max_tweets = 0
    /\ client_is_set = TRUE
    /\ prompt = <<>>
    /\ tried = <<>>
    /\ fallbacks = {}
    /\ gen_calls = 0

\* Steps 1 to 3 of run are not running: step 1 is over, the refresh issued
\* the tokens numbered 1 and the document holds that refresh token; no
\* articles.
InitRunIdle ==
    /\ news_response = "none"
    /\ articles = <<>>
    /\ access_token = 1
    /\ stored_refresh_token = 1
    /\ x_refresh_token = 1
    /\ refresh_calls = 1

\* The text functions are not running.
InitTextIdle ==
    /\ content = <<>>
    /\ expected_count = 0
    /\ split_result = <<>>
    /\ clean1 = <<>>
    /\ clean2 = <<>>

InitPublishLocals ==
    /\ tweet_ids = <<>>
    /\ thread_ids = <<>>
    /\ posted_short_ids = <<>>
    /\ i = 0
    /\ requests = <<>>
    /\ timeline = <<>>
    /\ error = NoError
    /\ exit_status = "running"

\* run is not publishing.
InitPublishIdle ==
    /\ thread_tweets = <<>>
    /\ short_tweets = <<>>
    /\ InitPublishLocals
    /\ raised = {}
    /\ calls = 0

\* run reaches step 6 with some thread_tweets and short_tweets.
InitPublish ==
    /\ pc = "step6"
    /\ thread_tweets \in {ThreadInput(n) : n \in 0..MaxThreadLen}
    /\ short_tweets \in {ShortInput(n) : n \in 0..MaxShortLen}
    /\ InitPublishLocals
    /\ raised = {}
    /\ calls = 1
    /\ InitTextIdle
    /\ InitGenIdle
    /\ InitRunIdle

\* Mutant: the handler logs the exception and run returns normally.
RunFails_mutant_exit0(e) ==
    /\ error' = e
    /\ exit_status' = "0"
    /\ pc' = "run_exit1"

\* The exception reaches run's handler: log it and sys.exit(1).
RunFails(e) ==
    /\ error' = e
    /\ exit_status' = "1"
    /\ pc' = "run_exit1"

\* post_thread, the guard before the try block: an empty list raises.
PostThreadEmpty ==
    /\ pc = "step6"
    /\ thread_tweets = <<>>
    /\ RunFails(EmptyThreadError)
    /\ UNCHANGED <<thread_tweets, short_tweets, tweet_ids, thread_ids,
                   posted_short_ids, i, requests, timeline, raised, calls>>
    /\ UNCHANGED textVars
    /\ UNCHANGED runVars
    /\ UNCHANGED genVars

\* post_thread, one post_tweet call: the first tweet with no reply target,
\* a later tweet as a reply.  After the last tweet post_thread returns
\* tweet_ids and run goes on to step 7, whose loop index starts at 0.
PostThreadCall ==
    /\ pc \in {"step6", "step6_loop"}
    /\ thread_tweets # <<>>
    /\ \E outcome \in PostOutcomes :
          LET target == IF pc = "step6" THEN None ELSE ReplyTarget(tweet_ids)
              call   == post_tweet(access_token, thread_tweets[i + 1], target,
                                   outcome, NextId(timeline))
              after  == PostThreadStep(tweet_ids, i, call)
          IN  /\ requests' = Append(requests, call.request @@ [id |-> call.id])
              /\ timeline' = Publish(timeline, call)
              /\ tweet_ids' = after.ids
              /\ IF after.raise # NoError
                 THEN /\ RunFails(after.raise)
                      /\ raised' = raised \cup
                            {[error |-> after.raise, cause |-> outcome,
                              published |-> Len(tweet_ids), failed_index |-> i]}
                      /\ i' = after.i
                      /\ UNCHANGED thread_ids
                 ELSE /\ raised' = raised
                      /\ UNCHANGED <<error, exit_status>>
                      /\ IF after.i >= Len(thread_tweets)
                         THEN thread_ids' = after.ids /\ i' = 0 /\ pc' = "step7"
                         ELSE UNCHANGED thread_ids /\ i' = after.i /\ pc' = "step6_loop"
    /\ UNCHANGED <<thread_tweets, short_tweets, posted_short_ids, calls>>
    /\ UNCHANGED textVars
    /\ UNCHANGED runVars
    /\ UNCHANGED genVars

\* run step 7, one iteration of the loop over short_tweets:
\* post_tweet(access_token, tweet_text) with no reply target.
PostShortCall ==
    /\ pc = "step7"
    /\ i < Len(short_tweets)
    /\ \E outcome \in PostOutcomes :
          LET call  == post_tweet(access_token, short_tweets[i + 1], None,
                                  outcome, NextId(timeline))
              after == PostShortStep(posted_short_ids, i, call)
          IN  /\ requests' = Append(requests, call.request @@ [id |-> call.id])
              /\ timeline' = Publish(timeline, call)
              /\ posted_short_ids' = after.ids
              /\ i' = after.i
              /\ IF after.raise # NoError
                 THEN RunFails(after.raise)
                 ELSE UNCHANGED <<error, exit_status, pc>>
    /\ UNCHANGED <<thread_tweets, short_tweets, tweet_ids, thread_ids, raised, calls>>
    /\ UNCHANGED textVars
    /\ UNCHANGED runVars
    /\ UNCHANGED genVars

\* run after the loop: the summary is logged and run returns.
RunSummary ==
    /\ pc = "step7"
    /\ i >= Len(short_tweets)
    /\ pc' = "run_done"
    /\ exit_status' = "0"
    /\ UNCHANGED <<thread_tweets, short_tweets, tweet_ids, thread_ids,
                   posted_short_ids, i, requests, timeline, error, raised, calls>>
    /\ UNCHANGED textVars
    /\ UNCHANGED runVars
    /\ UNCHANGED genVars

\* post_thread is invoked once more, with another list, after an invocation
\* that raised; what the earlier invocations raised is remembered.
CallAgain ==
    /\ pc = "run_exit1"
    /\ calls < MaxCalls
    /\ calls' = calls + 1
    /\ pc' = "step6"
    /\ thread_tweets' \in {ThreadInput(n) : n \in 0..MaxThreadLen}
    /\ tweet_ids' = <<>>
    /\ thread_ids' = <<>>
    /\ posted_short_ids' = <<>>
    /\ i' = 0
    /\ requests' = <<>>
    /\ timeline' = <<>>
    /\ error' = NoError
    /\ exit_status' = "running"
    /\ UNCHANGED <<short_tweets, raised>>
    /\ UNCHANGED textVars
    /\ UNCHANGED runVars
    /\ UNCHANGED genVars

NextPublish == PostThreadEmpty \/ PostThreadCall \/ PostShortCall \/ RunSummary

\* Steps 6 and 7 of run.
SpecPublish == InitPublish /\ [][NextPublish]_vars

InitThreadTwice == InitPublish /\ short_tweets = <<>>

NextThreadTwice == PostThreadEmpty \/ PostThreadCall \/ CallAgain

\* post_thread invoked up to MaxCalls times.
SpecThreadTwice == InitThreadTwice /\ [][NextThreadTwice]_vars


(***************************************************************************)
(* Claims about post_thread and the standalone loop                        *)
(***************************************************************************)

\* The POSTs made for thread tweets, and those made for standalone tweets.
ThreadRequests == SelectSeq(requests, IsThreadRequest)

ShortRequests == SelectSeq(requests, IsShortRequest)

T_C2_StopAtFirstFailure ==
    /\ \A k \in DOMAIN ThreadRequests :
          ThreadRequests[k].outcome # "created" =>
              /\ k = Len(requests)
              /\ pc = "run_exit1"
    /\ \A j, k \in DOMAIN ThreadRequests :
          j # k => ThreadRequests[j].text # ThreadRequests[k].text
    /\ \A k \in DOMAIN requests :
          requests[k].outcome = "created" =>
              \E t \in DOMAIN timeline :
                  /\ timeline[t].id = requests[k].id
                  /\ timeline[t].text = requests[k].text

\* A thread failed in the middle: tweets before the failed one were
\* created and tweets after it were left.
W_C2_FailedInTheMiddle ==
    /\ pc = "run_exit1"
    /\ Len(tweet_ids) >= 1
    /\ Len(tweet_ids) + 1 < Len(thread_tweets)
    /\ requests # <<>>
    /\ requests[Len(requests)].outcome # "created"

\* C3 as claimed: the exception post_thread raises carries the number of
\* tweets published and the index that failed, so two failures that raise
\* the same exception agree on both.
CE_C3_ErrorCarriesProgress ==
    \A a, b \in raised :
        a.error = b.error =>
            /\ a.published = b.published
            /\ a.failed_index = b.failed_index

\* C3 as amended: the exception post_thread raises is a ValueError whose
\* message is "Failed to post thread: " followed by the message of the
\* failed post_tweet call, and nothing else.
T_C3_ErrorCarriesOnlyCause ==
    /\ \A r \in raised :
          r.error = [type |-> "ValueError",
                     message |-> <<"Failed to post thread: ">>
                                     \o PostTweetError(r.cause).message]
    /\ (pc = "run_exit1" /\ requests # <<>>) => error \in {r.error : r \in raised}

\* Two invocations failed at different tweets and raised the same exception.
W_C3_SameErrorOtherProgress ==
    \E a, b \in raised :
        /\ a.error = b.error
        /\ a.published # b.published
        /\ a.published >= 1

\* C4 as claimed: once the thread is posted, every standalone tweet is
\* attempted exactly once whatever fails.
CE_C4_ContinuesPastFailures ==
    (/\ pc \in {"run_done", "run_exit1"}
     /\ thread_tweets # <<>>
     /\ Len(thread_ids) = Len(thread_tweets)) =>
        \A k \in DOMAIN short_tweets :
            Cardinality({n \in DOMAIN requests :
                            requests[n].text = short_tweets[k]}) = 1

\* C4 as amended: standalone tweets are posted in order with no reply
\* target; the first failed POST is the last one, ends run with exit status
\* 1 and leaves the later tweets unattempted; run returns only when every
\* standalone tweet was posted.
T_C4_StandaloneStopsAtFailure ==
    /\ \A k \in DOMAIN ShortRequests :
          /\ ShortRequests[k].reply = None
          /\ ShortRequests[k].text = short_tweets[k]
          /\ ShortRequests[k].outcome # "created" =>
                /\ k = Len(ShortRequests)
                /\ pc = "run_exit1"
                /\ exit_status = "1"
                /\ error = PostTweetError(ShortRequests[k].outcome)
          /\ ShortRequests[k].outcome = "created" =>
                posted_short_ids[k] = ShortRequests[k].id
    /\ pc = "run_done" =>
          /\ Len(posted_short_ids) = Len(short_tweets)
          /\ exit_status = "0"

\* A standalone tweet failed after one was posted and before the last.
W_C4_StandaloneFailedInTheMiddle ==
    /\ pc = "run_exit1"
    /\ Len(ShortRequests) >= 2
    /\ Len(ShortRequests) < Len(short_tweets)
    /\ ShortRequests[Len(ShortRequests)].outcome # "created"

\* C19: post_thread on an empty list raises ValueError("No tweets to post")
\* and no POST is made: run ends with exit status 1 and nothing on the
\* timeline.
T_C19_EmptyThreadFailsWithoutPost ==
    (thread_tweets = <<>> /\ pc # "step6") =>
        /\ pc = "run_exit1"
        /\ exit_status = "1"
        /\ error = [type |-> "ValueError", message |-> <<"No tweets to post">>]
        /\ requests = <<>>
        /\ timeline = <<>>
        /\ tweet_ids = <<>>

\* post_thread was called with an empty list while standalone tweets were
\* waiting, and raised.
W_C19_EmptyThreadRaised ==
    /\ thread_tweets = <<>>
    /\ short_tweets # <<>>
    /\ pc = "run_exit1"
    /\ requests = <<>>

(***************************************************************************)
(* _call_gemini_try_variants and the two generators                        *)
(***************************************************************************)

FallbackTweet1 ==
  <<
    "u00F0","u0178","u201D","u201D"," ","B","r","e","a","k","i","n","g",":"," ","W","e",
    " ","a","r","e"," ","m","o","n","i","t","o","r","i","n","g"," ","a"," ","d","e","v",
    "e","l","o","p","i","n","g"," ","s","t","o","r","y","."," ","M","o","r","e"," ","v",
    "e","r","i","f","i","e","d"," ","u","p","d","a","t","e","s"," ","s","o","o","n",".",
    " ","#","I","n","d","i","a"," ","#","N","e","w","s" >>

FallbackTweet2 ==
  <<
    "W","e"," ","a","r","e"," ","f","o","l","l","o","w","i","n","g"," ","o","f","f","i",
    "c","i","a","l"," ","s","o","u","r","c","e","s"," ","a","n","d"," ","w","i","l","l",
    " ","s","h","a","r","e"," ","k","e","y"," ","f","a","c","t","s"," ","w","h","e","n",
    " ","a","v","a","i","l","a","b","l","e","." >>

FallbackTweet3 ==
  <<
    "W","e","'","l","l"," ","s","u","m","m","a","r","i","s","e"," ","v","e","r","i","f",
    "i","e","d"," ","i","m","p","a","c","t"," ","a","n","d"," ","w","h","a","t"," ","i",
    "t"," ","m","e","a","n","s"," ","f","o","r"," ","c","i","t","i","z","e","n","s"," ",
    "&"," ","p","o","l","i","c","y","." >>

FallbackTweet4 ==
  <<
    "I","f"," ","y","o","u"," ","h","a","v","e"," ","t","r","u","s","t","e","d"," ","s",
    "o","u","r","c","e","s",","," ","r","e","p","l","y"," ","w","i","t","h"," ","l","i",
    "n","k","s"," ","u00E2","u20AC","u201D"," ","w","e"," ","w","i","l","l"," ","r","e",
    "v","i","e","w"," ","a","n","d"," ","c","i","t","e"," ","t","h","e","m","." >>

FallbackTweet5 ==
  <<
    "F","o","l","l","o","w"," ","f","o","r"," ","r","e","a","l","-","t","i","m","e",",",
    " ","v","e","r","i","f","i","e","d"," ","u","p","d","a","t","e","s","."," ","W","e",
    " ","a","v","o","i","d"," ","r","u","m","o","u","r","s","."," ","#","T","r","u","s",
    "t","w","o","r","t","h","y","N","e","w","s" >>

FALLBACK_THREAD ==
    <<FallbackTweet1, FallbackTweet2, FallbackTweet3, FallbackTweet4, FallbackTweet5>>

\* The call variants in the order they are attempted.
Variants == <<"A", "B", "C", "D">>

\* What one attempt yields: the client call raised, or
\* _extract_text_from_response returned None, or it returned a str.
Raises == [kind |-> "raise", text |-> <<>>]

NoText == [kind |-> "none", text |-> <<>>]

TextOf(t) == [kind |-> "text", text |-> t]

\* `if text:` after an attempt: a non-empty str ends the call.
AttemptSucceeds_mutant_any_text(outcome) == outcome.kind = "text"

AttemptSucceeds(outcome) == outcome.kind = "text" /\ outcome.text # <<>>

\* _call_gemini_try_variants after the attempts made so far: "return" with
\* the text of the last attempt, "raise" (client is None, or the four
\* variants failed), or "next" when another variant is to be attempted.
CallState_mutant_skip_last(has_client, attempts) ==
    IF ~has_client
    THEN [state |-> "raise", text |-> <<>>]
    ELSE IF attempts # <<>> /\ AttemptSucceeds(attempts[Len(attempts)].outcome)
    THEN [state |-> "return", text |-> attempts[Len(attempts)].outcome.text]
    ELSE IF Len(attempts) >= Len(Variants) - 1
    THEN [state |-> "raise", text |-> <<>>]
    ELSE [state |-> "next", text |-> <<>>]

CallState(has_client, attempts) ==
    IF ~has_client
    THEN [state |-> "raise", text |-> <<>>]
    ELSE IF attempts # <<>> /\ AttemptSucceeds(attempts[Len(attempts)].outcome)
    THEN [state |-> "return", text |-> attempts[Len(attempts)].outcome.text]
    ELSE IF Len(attempts) >= Len(Variants)
    THEN [state |-> "raise", text |-> <<>>]
    ELSE [state |-> "next", text |-> <<>>]

\* expected_count of the thread: _split_tweets_from_response(content, expected_count=5).
THREAD_COUNT == 5

\* The prompt of generate_thread_for_big_story: the fixed instructions and
\* the fields of the story.
ThreadPrompt(story) ==
    <<"thread", story.title, story.description, story.source_name,
      story.publishedAt, story.url>>

\* The prompt of generate_short_tweets_for_supporting_stories: the fixed
\* instructions, the first max_tweets stories and max_tweets.
ShortPrompt(stories, n) ==
    <<"short",
      [k \in 1..(IF n < Len(stories) THEN n ELSE Len(stories)) |->
          <<stories[k].title, stories[k].description, stories[k].source_name>>],
      n>>

\* What generate_thread_for_big_story returns when the call raised.
ThreadOnFailure_mutant_from_story(story) ==
    <<story.title, story.description, story.source_name, story.publishedAt, story.url>>

ThreadOnFailure(story) == FALLBACK_THREAD

\* generate_thread_for_big_story once _call_gemini_try_variants has
\* returned or raised: the split text, or the fallback thread.
GenerateThreadResult(story, call) ==
    IF call.state = "raise"
    THEN [value |-> ThreadOnFailure(story), raise |-> NoError]
    ELSE [value |-> _split_tweets_from_response(call.text, THREAD_COUNT),
          raise |-> NoError]

\* generate_short_tweets_for_supporting_stories once the call has returned
\* or raised: the split text, or the empty list.
GenerateShortResult_mutant_reraise(n, call) ==
    IF call.state = "raise"
    THEN [value |-> <<>>,
          raise |-> [type |-> "Exception", message |-> <<"All Gemini generation attempts failed">>]]
    ELSE [value |-> _split_tweets_from_response(call.text, n),
          raise |-> NoError]

GenerateShortResult(n, call) ==
    IF call.state = "raise"
    THEN [value |-> <<>>, raise |-> NoError]
    ELSE [value |-> _split_tweets_from_response(call.text, n),
          raise |-> NoError]

(***************************************************************************)
(* Inputs of the generators                                                *)
(***************************************************************************)

\* Most invocations of generate_thread_for_big_story observed one after
\* the other.
MaxGenCalls == 2

\* Largest max_tweets handed to generate_short_tweets_for_supporting_stories.
MaxShortTweets == 2

\* Most supporting stories handed to it.
MaxSupporting == 2

\* A story with every field empty, and two stories that differ in every field.
Stories ==
    { Story(<<>>, <<>>, <<>>, <<>>, <<>>),
      Story(<<"Q", "u", "a", "k", "e">>, <<"D", "e", "t", "a", "i", "l">>,
            <<"P", "T", "I">>, <<"2", "0", "2", "5">>, <<"u", "r", "l", "1">>),
      Story(<<"F", "l", "o", "o", "d">>, <<>>,
            <<"A", "N", "I">>, <<"2", "0", "2", "4">>, <<"u", "r", "l", "2">>) }

SupportingPool ==
    << Story(<<"R", "a", "i", "n">>, <<"W", "e", "t">>, <<"P", "T", "I">>,
             <<"2", "0", "2", "3">>, <<"u", "r", "l", "3">>),
       Story(<<"H", "e", "a", "t">>, <<"H", "o", "t">>, <<"A", "N", "I">>,
             <<"2", "0", "2", "2">>, <<"u", "r", "l", "4">>),
       Story(<<"S", "n", "o", "w">>, <<"I", "c", "y">>, <<"D", "D">>,
             <<"2", "0", "2", "1">>, <<"u", "r", "l", "5">>),
       Story(<<"W", "i", "n", "d">>, <<"G", "u", "s", "t">>, <<"I", "E">>,
             <<"2", "0", "2", "0">>, <<"u", "r", "l", "6">>) >>

SupportingInputs == {SubSeq(SupportingPool, 1, n) : n \in 0..MaxSupporting}

Delim == <<"\n", "-", "-", "-", "\n">>

\* Texts a backend returns: the empty str, blanks only, one segment with
\* no delimiter, two segments, seven segments of which one is a tag only,
\* and two segments of which the second is longer than MAX_TWEET_CHARS.
BackendTexts ==
    { <<>>,
      <<"s">> \o Delim \o LongRun \o <<" ", "a", "n", "d", " ", "m", "o", "r", "e">>,
      <<" ", "\n">>,
      <<"n", "o", " ", "d", "e", "l", "i", "m">>,
      <<"T", "w", "e", "e", "t", " ", "1", ":", " ", "p">> \o Delim \o <<"2", ".", " ", "q">>,
      <<"a">> \o Delim \o <<"<", "i", ">">> \o Delim \o <<"b">> \o Delim \o <<"c">>
          \o Delim \o <<"d">> \o Delim \o <<"e">> \o Delim \o <<"f">> }

AttemptOutcomes == {Raises, NoText} \cup {TextOf(t) : t \in BackendTexts}

(***************************************************************************)
(* Specification of the generators: steps 4 and 5 of run                   *)
(***************************************************************************)

\* run reaches step 4 with some stories; the module's client was built at
\* import time, or is None when genai.Client raised.
InitGen ==
    /\ pc = "step4"
    /\ big_story \in Stories
    /\ supporting_stories \in SupportingInputs
    /\ max_tweets \in 0..MaxShortTweets
    /\ client_is_set \in BOOLEAN
    /\ prompt = <<>>
    /\ tried = <<>>
    /\ fallbacks = {}
    /\ gen_calls = 1
    /\ InitPublishIdle
    /\ InitTextIdle
    /\ InitRunIdle

\* generate_thread_for_big_story returns to run, which goes on to step 5.
ThreadGenerated(call) ==
    LET r == GenerateThreadResult(big_story, call)
    IN  /\ thread_tweets' = r.value
        /\ fallbacks' = IF call.state = "raise"
                        THEN fallbacks \cup {[story |-> big_story, thread |-> r.value]}
                        ELSE fallbacks
        /\ IF r.raise # NoError
           THEN RunFails(r.raise)
           ELSE pc' = "step5" /\ UNCHANGED <<error, exit_status>>

\* generate_short_tweets_for_supporting_stories returns to run, which goes
\* on to step 6.
ShortGenerated(call) ==
    LET r == GenerateShortResult(max_tweets, call)
    IN  /\ short_tweets' = r.value
        /\ IF r.raise # NoError
           THEN RunFails(r.raise)
           ELSE pc' = "step6" /\ UNCHANGED <<error, exit_status>>

\* generate_thread_for_big_story up to the first client call: the prompt is
\* built; with client None the call raises at once.
GenerateThreadEnter ==
    /\ pc = "step4"
    /\ prompt' = ThreadPrompt(big_story)
    /\ tried' = <<>>
    /\ LET call == CallState(client_is_set, <<>>)
       IN  IF call.state = "next"
           THEN /\ pc' = "step4_call"
                /\ UNCHANGED <<thread_tweets, fallbacks, error, exit_status>>
           ELSE ThreadGenerated(call)
    /\ UNCHANGED <<big_story, supporting_stories, max_tweets, client_is_set, gen_calls>>
    /\ UNCHANGED <<short_tweets, tweet_ids, thread_ids, posted_short_ids, i,
                   requests, timeline, raised, calls>>
    /\ UNCHANGED textVars
    /\ UNCHANGED runVars

\* One attempt of _call_gemini_try_variants on behalf of the thread: the
\* next variant is called; its text ends the call, its failure leads to the
\* next variant or, after the last, to the raise.
AttemptThread ==
    /\ pc = "step4_call"
    /\ \E outcome \in AttemptOutcomes :
          LET now  == Append(tried, [variant |-> Variants[Len(tried) + 1],
                                     outcome |-> outcome])
              call == CallState(client_is_set, now)
          IN  /\ tried' = now
              /\ IF call.state = "next"
                 THEN UNCHANGED <<pc, thread_tweets, fallbacks, error, exit_status>>
                 ELSE ThreadGenerated(call)
    /\ UNCHANGED <<big_story, supporting_stories, max_tweets, client_is_set, prompt,
                   gen_calls>>
    /\ UNCHANGED <<short_tweets, tweet_ids, thread_ids, posted_short_ids, i,
                   requests, timeline, raised, calls>>
    /\ UNCHANGED textVars
    /\ UNCHANGED runVars

\* generate_short_tweets_for_supporting_stories up to the first client
\* call: no stories or max_tweets <= 0 returns [] at once.
GenerateShortEnter ==
    /\ pc = "step5"
    /\ IF supporting_stories = <<>> \/ max_tweets <= 0
       THEN /\ short_tweets' = <<>>
            /\ pc' = "step6"
            /\ UNCHANGED <<prompt, tried, error, exit_status>>
       ELSE /\ prompt' = ShortPrompt(supporting_stories, max_tweets)
            /\ tried' = <<>>
            /\ LET call == CallState(client_is_set, <<>>)
               IN  IF call.state = "next"
                   THEN /\ pc' = "step5_call"
                        /\ UNCHANGED <<short_tweets, error, exit_status>>
                   ELSE ShortGenerated(call)
    /\ UNCHANGED <<big_story, supporting_stories, max_tweets, client_is_set, fallbacks,
                   gen_calls>>
    /\ UNCHANGED <<thread_tweets, tweet_ids, thread_ids, posted_short_ids, i,
                   requests, timeline, raised, calls>>
    /\ UNCHANGED textVars
    /\ UNCHANGED runVars

\* One attempt of _call_gemini_try_variants on behalf of the short tweets.
AttemptShort ==
    /\ pc = "step5_call"
    /\ \E outcome \in AttemptOutcomes :
          LET now  == Append(tried, [variant |-> Variants[Len(tried) + 1],
                                     outcome |-> outcome])
              call == CallState(client_is_set, now)
          IN  /\ tried' = now
              /\ IF call.state = "next"
                 THEN UNCHANGED <<pc, short_tweets, error, exit_status>>
                 ELSE ShortGenerated(call)
    /\ UNCHANGED <<big_story, supporting_stories, max_tweets, client_is_set, prompt,
                   fallbacks, gen_calls>>
    /\ UNCHANGED <<thread_tweets, tweet_ids, thread_ids, posted_short_ids, i,
                   requests, timeline, raised, calls>>
    /\ UNCHANGED textVars
    /\ UNCHANGED runVars

\* generate_thread_for_big_story is invoked once more, for another story;
\* the fallback threads returned so far are remembered.
GenerateThreadAgain ==
    /\ pc = "step5"
    /\ gen_calls < MaxGenCalls
    /\ gen_calls' = gen_calls + 1
    /\ pc' = "step4"
    /\ big_story' \in Stories
    /\ prompt' = <<>>
    /\ tried' = <<>>
    /\ thread_tweets' = <<>>
    /\ UNCHANGED <<supporting_stories, max_tweets, client_is_set, fallbacks>>
    /\ UNCHANGED <<short_tweets, tweet_ids, thread_ids, posted_short_ids, i,
                   requests, timeline, error, exit_status, raised, calls>>
    /\ UNCHANGED textVars
    /\ UNCHANGED runVars

NextGen == GenerateThreadEnter \/ AttemptThread \/ GenerateShortEnter \/ AttemptShort

\* Steps 4 and 5 of run.
SpecGen == InitGen /\ [][NextGen]_vars

InitGenTwice == InitGen /\ supporting_stories = <<>> /\ max_tweets = 0

NextGenTwice == GenerateThreadEnter \/ AttemptThread \/ GenerateThreadAgain

\* generate_thread_for_big_story invoked up to MaxGenCalls times.
SpecGenTwice == InitGenTwice /\ [][NextGenTwice]_vars

(***************************************************************************)
(* Claims about the generators                                             *)
(***************************************************************************)

\* Every attempt of the running call failed: it raised, or gave no text,
\* or gave the empty str.
EveryAttemptFailed ==
    /\ Len(tried) = Len(Variants)
    /\ \A k \in DOMAIN tried :
          tried[k].outcome.kind # "text" \/ tried[k].outcome.text = <<>>

\* C5: generate_thread_for_big_story never raises and returns exactly 5
\* tweets, none of them empty, whatever the attempts yield (a raise, no
\* text, the empty str, blanks, text without delimiter, well-formed text)
\* and whichever fields of the story are empty.
T_C5_ThreadAlwaysFiveTweets ==
    /\ pc # "run_exit1"
    /\ pc \in {"step5", "step5_call", "step6"} =>
          /\ Len(thread_tweets) = 5
          /\ \A k \in DOMAIN thread_tweets : thread_tweets[k] # <<>>
          /\ error = NoError

\* The thread was generated from a text with no usable segment, after
\* three failed attempts, for the story with every field empty.
W_C5_ThreadFromBlankText ==
    /\ pc = "step5"
    /\ big_story.title = <<>>
    /\ Len(tried) = 4
    /\ tried[1].outcome.kind = "raise"
    /\ tried[2].outcome = TextOf(<<>>)
    /\ tried[4].outcome = TextOf(<<" ", "\n">>)
    /\ Len(thread_tweets) = 5

\* C6 as claimed: the fallback thread is synthesized from the fields of
\* the lead story, so stories that differ get fallback threads that differ.
CE_C6_FallbackDependsOnStory ==
    \A a, b \in fallbacks : a.story # b.story => a.thread # b.thread

\* C6 as amended: when the call raises, the thread returned is the constant
\* FALLBACK_THREAD, the same five tweets for every story.
T_C6_FallbackIsConstant ==
    /\ \A f \in fallbacks : f.thread = FALLBACK_THREAD
    /\ (pc = "step5" /\ (~client_is_set \/ EveryAttemptFailed)) =>
          /\ thread_tweets = FALLBACK_THREAD
          /\ [story |-> big_story, thread |-> thread_tweets] \in fallbacks

\* Two stories that differ in every field got the same fallback thread.
W_C6_SameFallbackOtherStory ==
    \E a, b \in fallbacks :
        /\ a.story.title # b.story.title
        /\ a.story.title # <<>>
        /\ b.story.title # <<>>
        /\ a.thread = b.thread

\* C7: generate_short_tweets_for_supporting_stories never raises, and
\* returns the empty list when the client is None or every attempt failed.
T_C7_ShortNeverRaises ==
    /\ pc # "run_exit1"
    /\ error = NoError
    /\ (/\ pc = "step6"
        /\ supporting_stories # <<>>
        /\ max_tweets > 0
        /\ (~client_is_set \/ EveryAttemptFailed)) => short_tweets = <<>>

\* The four attempts made for the short tweets all failed.
W_C7_ShortAllFailed ==
    /\ pc = "step6"
    /\ supporting_stories # <<>>
    /\ max_tweets > 0
    /\ client_is_set
    /\ prompt[1] = "short"
    /\ EveryAttemptFailed
    /\ short_tweets = <<>>

\* _call_gemini_try_variants is running, or is over, on behalf of the
\* thread or of the short tweets; `tried` then holds its attempts.
CallRunning == pc \in {"step4_call", "step5_call"}

ThreadCallOver == pc = "step5"

ShortCallOver == pc = "step6" /\ prompt # <<>> /\ prompt[1] = "short"

\* The call raised: the thread generator returned the fallback thread, the
\* short generator the empty list.
CallRaised ==
    \/ ThreadCallOver /\ fallbacks # {}
    \/ ShortCallOver /\ short_tweets = <<>>

CallReturned ==
    \/ ThreadCallOver /\ fallbacks = {}
    \/ ShortCallOver /\ short_tweets # <<>>

\* The attempts were made in the order A, B, C, D, each variant once, and
\* none after an attempt that gave a non-empty text; a call that returned,
\* returned the text of its last attempt.
AttemptsInOrder ==
    (CallRunning \/ ThreadCallOver \/ ShortCallOver) =>
        /\ Len(tried) <= 4
        /\ \A k \in DOMAIN tried : tried[k].variant = <<"A", "B", "C", "D">>[k]
        /\ \A k \in 1..(Len(tried) - 1) : ~AttemptSucceeds(tried[k].outcome)
        /\ CallRunning => \A k \in DOMAIN tried : ~AttemptSucceeds(tried[k].outcome)
        /\ CallReturned =>
              /\ tried # <<>>
              /\ tried[Len(tried)].outcome.kind = "text"
              /\ tried[Len(tried)].outcome.text # <<>>
              /\ ThreadCallOver =>
                    thread_tweets =
                       _split_tweets_from_response(tried[Len(tried)].outcome.text, 5)
              /\ ShortCallOver =>
                    short_tweets =
                       _split_tweets_from_response(tried[Len(tried)].outcome.text, max_tweets)

AllFourFailed ==
    /\ Len(tried) = 4
    /\ \A k \in DOMAIN tried :
          tried[k].outcome.kind # "text" \/ tried[k].outcome.text = <<>>

\* C22 as claimed: the order holds and the call raises only after the four
\* variants failed or gave no text.
CE_C22_RaisesOnlyAfterFour ==
    /\ AttemptsInOrder
    /\ CallRaised => AllFourFailed

\* C22 as amended: the order holds; with a client the call raises only
\* after the four variants failed or gave no text; with client None it
\* raises at once and no variant is attempted.
T_C22_VariantsInOrder ==
    /\ AttemptsInOrder
    /\ (CallRaised /\ client_is_set) => AllFourFailed
    /\ (CallRunning \/ ThreadCallOver \/ ShortCallOver) =>
          (~client_is_set => (tried = <<>> /\ ~CallRunning /\ ~CallReturned))

\* The call for the thread returned the text of variant C after A raised
\* and B gave no text.
W_C22_ThirdVariantReturned ==
    /\ ThreadCallOver
    /\ CallReturned
    /\ Len(tried) = 3
    /\ tried[1].outcome = Raises
    /\ tried[2].outcome = NoText
    /\ tried[3].variant = "C"

(***************************************************************************)
(* Specification of the text functions                                     *)
(***************************************************************************)

InitText ==
    /\ pc = "text_input"
    /\ content \in RawTexts
    /\ expected_count = 0
    /\ split_result = <<>>
    /\ clean1 = <<>>
    /\ clean2 = <<>>
    /\ InitPublishIdle
    /\ InitGenIdle
    /\ InitRunIdle

\* _split_tweets_from_response(content, expected_count=n)
SplitCall ==
    /\ pc = "text_input"
    /\ \E n \in 0..MaxExpected :
          /\ expected_count' = n
          /\ split_result' = _split_tweets_from_response(content, n)
    /\ pc' = "split_returned"
    /\ UNCHANGED <<content, clean1, clean2>>
    /\ UNCHANGED publishVars
    /\ UNCHANGED runVars
    /\ UNCHANGED genVars

\* The cleaning steps applied to content as one part.
CleanCall ==
    /\ pc = "text_input"
    /\ clean1' = CleanPart(content)
    /\ pc' = "cleaned_once"
    /\ UNCHANGED <<content, expected_count, split_result, clean2>>
    /\ UNCHANGED publishVars
    /\ UNCHANGED runVars
    /\ UNCHANGED genVars

\* The cleaning steps applied to the cleaned part.
CleanAgain ==
    /\ pc = "cleaned_once"
    /\ clean2' = CleanPart(clean1)
    /\ pc' = "cleaned_twice"
    /\ UNCHANGED <<content, expected_count, split_result, clean1>>
    /\ UNCHANGED publishVars
    /\ UNCHANGED runVars
    /\ UNCHANGED genVars

NextText == SplitCall \/ CleanCall \/ CleanAgain

SpecText == InitText /\ [][NextText]_vars

(***************************************************************************)
(* Claims about the text functions                                         *)
(***************************************************************************)

\* The parts of the stripped content, and the places of those that do not
\* clean to the empty str.
ContentParts == SplitOnDelimiter(Strip(content))

UsableParts == {k \in DOMAIN ContentParts : CleanPart(ContentParts[k]) # <<>>}

\* The filler tweet.
Filler == truncate_to_limit(FILLER_TEXT, MAX_TWEET_CHARS)

\* C8 as claimed: the result has exactly expected_count entries for every
\* raw text, the empty one included.
CE_C8_AlwaysExpectedCount ==
    pc = "split_returned" => Len(split_result) = expected_count

\* C8 as amended: for every raw text that is not the empty str the result
\* has exactly expected_count entries, the usable parts first and the
\* filler tweet in every place after them (so a text with no usable part
\* yields fillers only); for the empty str the result is the empty list.
T_C8_ExpectedCountUnlessEmpty ==
    pc = "split_returned" =>
        IF content = <<>>
        THEN split_result = <<>>
        ELSE /\ Len(split_result) = expected_count
             /\ \A k \in DOMAIN split_result :
                   IF k > Cardinality(UsableParts)
                   THEN split_result[k] = Filler
                   ELSE \E p \in UsableParts :
                           /\ Cardinality({q \in UsableParts : q <= p}) = k
                           /\ split_result[k] = CleanPart(ContentParts[p])

\* A text with one usable part was split for two tweets.
W_C8_Shortfall ==
    /\ pc = "split_returned"
    /\ content # <<>>
    /\ expected_count = 2
    /\ Cardinality(UsableParts) = 1
    /\ Len(ContentParts) >= 2
    /\ split_result[2] = Filler

\* C9: when more than expected_count parts are usable, the result is the
\* first expected_count of them, cleaned, in their order.
T_C9_FirstPartsInOrder ==
    (pc = "split_returned" /\ Cardinality(UsableParts) > expected_count) =>
        /\ Len(split_result) = expected_count
        /\ \A k \in DOMAIN split_result :
              \E p \in UsableParts :
                  /\ Cardinality({q \in UsableParts : q <= p}) = k
                  /\ split_result[k] = CleanPart(ContentParts[p])

\* Three usable parts, all different once cleaned, were split for two tweets.
W_C9_PartsDiscarded ==
    /\ pc = "split_returned"
    /\ expected_count = 2
    /\ Cardinality(UsableParts) = 3
    /\ split_result[1] # split_result[2]
    /\ \A k \in 1..2 : split_result[k] # CleanPart(ContentParts[3])

\* C10 as claimed: cleaning a cleaned tweet leaves it unchanged.
CE_C10_CleanIdempotent ==
    pc = "cleaned_twice" => clean2 = clean1

\* The part as truncate_to_limit measures it: labels dropped, whitespace
\* collapsed, tags stripped and the ends trimmed.
BeforeTruncation ==
    Strip(StripTags(_clean_spaces(StripNumberLabel(StripTweetLabel(Strip(content))))))

Ellipsis == <<".", ".", ".">>

EndsWithEllipsis(s) == Len(s) >= 3 /\ SubSeq(s, Len(s) - 2, Len(s)) = Ellipsis

\* C11 as claimed: a text whose cleaned length exceeds the limit is cleaned
\* to exactly MAX_TWEET_CHARS characters ending with "...".
CE_C11_TruncatedToExactlyLimit ==
    (pc = "cleaned_once" /\ Len(BeforeTruncation) > MAX_TWEET_CHARS) =>
        /\ Len(clean1) = MAX_TWEET_CHARS
        /\ EndsWithEllipsis(clean1)

\* C11 as amended: a text whose cleaned length exceeds the limit is cleaned
\* to at most MAX_TWEET_CHARS characters ending with "..."; what precedes
\* the "..." is a prefix of the text that does not end in whitespace, and
\* the length is exactly MAX_TWEET_CHARS if and only if the character at
\* position MAX_TWEET_CHARS - 3 of the text is not whitespace.
T_C11_TruncatedWithinLimit ==
    (pc = "cleaned_once" /\ Len(BeforeTruncation) > MAX_TWEET_CHARS) =>
        LET kept == SubSeq(clean1, 1, Len(clean1) - 3)
        IN  /\ Len(clean1) <= MAX_TWEET_CHARS
            /\ EndsWithEllipsis(clean1)
            /\ kept # <<>>
            /\ kept = SubSeq(BeforeTruncation, 1, Len(kept))
            /\ kept[Len(kept)] \notin SpaceChars
            /\ \A k \in (Len(kept) + 1)..(MAX_TWEET_CHARS - 3) :
                  BeforeTruncation[k] \in SpaceChars
            /\ (Len(clean1) = MAX_TWEET_CHARS) <=>
                  (BeforeTruncation[MAX_TWEET_CHARS - 3] \notin SpaceChars)

\* A text over the limit whose cut falls after whitespace was cleaned to
\* fewer than MAX_TWEET_CHARS characters.
W_C11_CutAfterWhitespace ==
    /\ pc = "cleaned_once"
    /\ Len(BeforeTruncation) > MAX_TWEET_CHARS
    /\ BeforeTruncation[MAX_TWEET_CHARS - 3] \in SpaceChars
    /\ Len(clean1) < MAX_TWEET_CHARS

\* A tag is what truncate_to_limit removes; a label is what the two label
\* substitutions remove.
HasTag(s) == StripTags(s) # s

BeginsWithLabel(s) == StripTweetLabel(s) # s \/ StripNumberLabel(s) # s

\* C12: every cleaned part, and every tweet the splitter returns, holds no
\* tag and begins with no enumeration label.
CE_C12_NoTagNoLabel ==
    /\ pc = "cleaned_once" => (~HasTag(clean1) /\ ~BeginsWithLabel(clean1))
    /\ pc = "split_returned" =>
          \A k \in DOMAIN split_result :
              ~HasTag(split_result[k]) /\ ~BeginsWithLabel(split_result[k])

(***************************************************************************)
(* select_big_and_supporting_stories                                       *)
(***************************************************************************)

\* The characters of publishedAt values in code point order.
CharOrder == <<"-", "0", "1", "2", "3", "4", "5", "6", "7", "8", "9", ":", "T", "Z">>

Ord(c) == CHOOSE k \in DOMAIN CharOrder : CharOrder[k] = c

\* Python's a < b on str: lexicographic by code point.
RECURSIVE StrLess(_, _)
StrLess(a, b) ==
    IF b = <<>> THEN FALSE
    ELSE IF a = <<>> THEN TRUE
    ELSE IF a[1] = b[1] THEN StrLess(Tail(a), Tail(b))
    ELSE Ord(a[1]) < Ord(b[1])

\* _parse_ts: `ts or ""`.
_parse_ts(ts) == ts

\* The sort key of an article.
SortKey(article) == _parse_ts(article.publishedAt)

\* One article placed into a list sorted by key, descending: after every
\* article whose key is not smaller, so equal keys keep their input order
\* (sorted is stable, with reverse=True as well).
RECURSIVE InsertDescending_mutant_ascending(_, _)
InsertDescending_mutant_ascending(sorted, article) ==
    IF sorted = <<>> THEN <<article>>
    ELSE IF StrLess(SortKey(article), SortKey(Head(sorted)))
    THEN <<article>> \o sorted
    ELSE <<Head(sorted)>> \o InsertDescending_mutant_ascending(Tail(sorted), article)

RECURSIVE InsertDescending(_, _)
InsertDescending(sorted, article) ==
    IF sorted = <<>> THEN <<article>>
    ELSE IF StrLess(SortKey(Head(sorted)), SortKey(article))
    THEN <<article>> \o sorted
    ELSE <<Head(sorted)>> \o InsertDescending(Tail(sorted), article)

\* sorted(articles, key=lambda x: _parse_ts(x.get("publishedAt", "")), reverse=True)
RECURSIVE SortedArticles(_)
SortedArticles(as) ==
    IF as = <<>> THEN <<>>
    ELSE InsertDescending(SortedArticles(SubSeq(as, 1, Len(as) - 1)), as[Len(as)])

\* `not text.strip()`
IsBlank(text) == Strip(text) = <<>>

\* One iteration of the loop over sorted_articles[1:].  st holds
\* supporting_stories and seen_sources; after the break at three entries
\* no later article changes them.
ConsiderArticle_mutant_repeat_third(st, article) ==
    IF Len(st.supporting_stories) >= 3 THEN st
    ELSE IF IsBlank(article.title) \/ IsBlank(article.description) THEN st
    ELSE IF article.source_name # <<>> /\ article.source_name \notin st.seen_sources
    THEN [supporting_stories |-> Append(st.supporting_stories, article),
          seen_sources |-> st.seen_sources \cup {article.source_name}]
    ELSE [supporting_stories |-> Append(st.supporting_stories, article),
          seen_sources |-> st.seen_sources]

ConsiderArticle(st, article) ==
    IF Len(st.supporting_stories) >= 3 THEN st
    ELSE IF IsBlank(article.title) \/ IsBlank(article.description) THEN st
    ELSE IF article.source_name # <<>> /\ article.source_name \notin st.seen_sources
    THEN [supporting_stories |-> Append(st.supporting_stories, article),
          seen_sources |-> st.seen_sources \cup {article.source_name}]
    ELSE IF Len(st.supporting_stories) < 2
    THEN [supporting_stories |-> Append(st.supporting_stories, article),
          seen_sources |-> st.seen_sources]
    ELSE st

RECURSIVE SupportingLoop(_, _)
SupportingLoop(st, rest) ==
    IF rest = <<>> THEN st
    ELSE SupportingLoop(ConsiderArticle(st, Head(rest)), Tail(rest))

\* The fallback: sorted_articles[1:3].
NextMostRecent_mutant_one(sorted) == SubSeq(sorted, 2, IF Len(sorted) < 2 THEN Len(sorted) ELSE 2)

NextMostRecent(sorted) == SubSeq(sorted, 2, IF Len(sorted) < 3 THEN Len(sorted) ELSE 3)

\* raise ValueError("No articles available to select stories from")
NoArticlesError ==
    [type |-> "ValueError", message |-> <<"No articles available to select stories from">>]

\* select_big_and_supporting_stories: the tuple returned, or the exception.
select_big_and_supporting_stories(as) ==
    IF as = <<>>
    THEN [raise |-> NoArticlesError, big_story |-> Story(<<>>, <<>>, <<>>, <<>>, <<>>),
          supporting_stories |-> <<>>]
    ELSE LET sorted_articles == SortedArticles(as)
             first == sorted_articles[1]
             st == SupportingLoop([supporting_stories |-> <<>>,
                                   seen_sources |-> {first.source_name}],
                                  Tail(sorted_articles))
         IN  [raise |-> NoError,
              big_story |-> first,
              supporting_stories |->
                  IF st.supporting_stories = <<>>
                  THEN NextMostRecent(sorted_articles)
                  ELSE st.supporting_stories]

(***************************************************************************)
(* Inputs of the selection                                                 *)
(***************************************************************************)

\* Most articles handed to select_big_and_supporting_stories.
MaxArticles == 5

\* Articles as fetch_top_headlines builds them: every field a str.  Two
\* share a source, two share a timestamp, one has an empty title and the
\* latest timestamp, one has a blank description and neither source nor
\* timestamp, one has an empty description, and "10" sorts between "1"
\* and "2".
ArticlePool ==
    { Story(<<"A">>, <<"a">>, <<"S", "1">>, <<"3">>, <<"u", "1">>),
      Story(<<"B">>, <<"b">>, <<"S", "1">>, <<"2">>, <<"u", "2">>),
      Story(<<"C">>, <<"c">>, <<"S", "2">>, <<"2">>, <<"u", "3">>),
      Story(<<>>, <<"d">>, <<"S", "3">>, <<"4">>, <<"u", "4">>),
      Story(<<"E">>, <<" ">>, <<>>, <<>>, <<"u", "5">>),
      Story(<<"G">>, <<"g">>, <<"S", "4">>, <<"1", "0">>, <<"u", "7">>),
      Story(<<"H">>, <<>>, <<"S", "2">>, <<"2">>, <<"u", "8">>) }

ArticleLists == UNION {[1..n -> ArticlePool] : n \in 0..MaxArticles}

(***************************************************************************)
(* Specification of the selection: step 3 of run                           *)
(***************************************************************************)

\* run reaches step 3 with the articles fetch_top_headlines returned.
InitSelect ==
    /\ pc = "step3"
    /\ articles \in ArticleLists
    /\ news_response = "ok"
    /\ access_token = 1
    /\ stored_refresh_token = 1
    /\ x_refresh_token = 1
    /\ refresh_calls = 1
    /\ InitPublishIdle
    /\ InitTextIdle
    /\ InitGenIdle

\* run step 3: select_big_and_supporting_stories(articles); its exception
\* reaches run's handler.
SelectStories ==
    /\ pc = "step3"
    /\ LET r == select_big_and_supporting_stories(articles)
       IN  IF r.raise # NoError
           THEN /\ RunFails(r.raise)
                /\ UNCHANGED <<big_story, supporting_stories>>
           ELSE /\ big_story' = r.big_story
                /\ supporting_stories' = r.supporting_stories
                /\ pc' = "step4"
                /\ UNCHANGED <<error, exit_status>>
    /\ UNCHANGED <<max_tweets, client_is_set, prompt, tried, fallbacks, gen_calls>>
    /\ UNCHANGED <<thread_tweets, short_tweets, tweet_ids, thread_ids, posted_short_ids,
                   i, requests, timeline, raised, calls>>
    /\ UNCHANGED textVars
    /\ UNCHANGED runVars

NextSelect == SelectStories

SpecSelect == InitSelect /\ [][NextSelect]_vars

(***************************************************************************)
(* Claims about the selection                                              *)
(***************************************************************************)

\* The articles in the order the selection walks them.
Walked == SortedArticles(articles)

\* C14: an empty list raises the empty-input error; for every other list
\* a lead and a supporting list are returned and no supporting story
\* equals the lead, lists with equal articles included.
CE_C14_LeadNotInSupporting ==
    /\ (pc # "step3" /\ articles = <<>>) =>
          (pc = "run_exit1" /\ error = NoArticlesError)
    /\ (pc # "step3" /\ articles # <<>>) =>
          /\ pc = "step4"
          /\ \A k \in DOMAIN supporting_stories : supporting_stories[k] # big_story

\* C15: no article has a greater publishedAt than the lead, the lead is
\* the first article walked, the walk goes from greater publishedAt to
\* smaller with the empty ones last, and a lead with an empty publishedAt
\* means every article has an empty publishedAt.
T_C15_LeadIsLatest ==
    pc = "step4" =>
        LET walk == Walked
        IN  /\ \E k \in DOMAIN articles : articles[k] = big_story
            /\ \A k \in DOMAIN articles :
                  ~StrLess(big_story.publishedAt, articles[k].publishedAt)
            /\ big_story = walk[1]
            /\ \A j, k \in DOMAIN walk :
                  j < k => /\ ~StrLess(walk[j].publishedAt, walk[k].publishedAt)
                           /\ (walk[j].publishedAt = <<>> => walk[k].publishedAt = <<>>)
            /\ big_story.publishedAt = <<>> =>
                  \A k \in DOMAIN articles : articles[k].publishedAt = <<>>

\* The list began with an article without timestamp and held "10" and "2";
\* the lead is the article with "2", which was not the first of the list.
W_C15_LaterArticleLeads ==
    /\ pc = "step4"
    /\ Len(articles) >= 3
    /\ articles[1].publishedAt = <<>>
    /\ \E k \in DOMAIN articles : articles[k].publishedAt = <<"1", "0">>
    /\ big_story.publishedAt = <<"2">>

\* C16: when some article has a non-empty title, neither the lead nor a
\* supporting story has an empty title.
CE_C16_NoEmptyTitleSelected ==
    (pc = "step4" /\ \E k \in DOMAIN articles : articles[k].title # <<>>) =>
        /\ big_story.title # <<>>
        /\ \A k \in DOMAIN supporting_stories : supporting_stories[k].title # <<>>

\* Whether entry k of the supporting list has no source name or one used
\* by the lead or by an earlier entry.
RepeatsSource(k) ==
    \/ supporting_stories[k].source_name = <<>>
    \/ supporting_stories[k].source_name = big_story.source_name
    \/ \E j \in 1..(k - 1) :
          supporting_stories[j].source_name = supporting_stories[k].source_name

\* C17: the supporting list has at most 3 entries, and an entry with an
\* empty or used source name is among the first two.
T_C17_ThirdFromNewSource ==
    pc = "step4" =>
        /\ Len(supporting_stories) <= 3
        /\ \A k \in DOMAIN supporting_stories : RepeatsSource(k) => k <= 2

\* Three supporting stories were chosen out of four candidates, the first
\* two from the lead's source.
W_C17_ThreeChosen ==
    /\ pc = "step4"
    /\ Len(articles) = 5
    /\ Len(supporting_stories) = 3
    /\ RepeatsSource(1)
    /\ RepeatsSource(2)
    /\ \A k \in 2..5 : ~IsBlank(Walked[k].title) /\ ~IsBlank(Walked[k].description)
    /\ Walked[5].source_name \notin
          {big_story.source_name} \cup {supporting_stories[k].source_name : k \in 1..3}

\* C18: when no article walked after the lead has both a non-empty title
\* and a non-empty description, the supporting list is the next two
\* articles walked (fewer when fewer exist); and the supporting list is
\* not empty when two or more articles besides the lead exist.
T_C18_FallbackNextTwo ==
    pc = "step4" =>
        LET walk == Walked
        IN  /\ (\A k \in 2..Len(walk) :
                    walk[k].title = <<>> \/ walk[k].description = <<>>) =>
                  /\ Len(supporting_stories) =
                        (IF Len(articles) >= 3 THEN 2 ELSE Len(articles) - 1)
                  /\ \A k \in DOMAIN supporting_stories :
                        supporting_stories[k] = walk[k + 1]
            /\ Len(articles) >= 3 => supporting_stories # <<>>

\* Four articles, none after the lead with both title and description:
\* the two after the lead were taken and the last was left out.
W_C18_FallbackTaken ==
    /\ pc = "step4"
    /\ Len(articles) = 4
    /\ \A k \in 2..4 : Walked[k].title = <<>> \/ Walked[k].description = <<>>
    /\ Walked[2] # Walked[3]
    /\ supporting_stories = <<Walked[2], Walked[3]>>

(***************************************************************************)
(* refresh_access_token, fetch_top_headlines and run                       *)
(***************************************************************************)

\* How refresh_access_token can end.  "refreshed": the platform issued new
\* tokens and the document was updated.  "store_read_error":
\* get_refresh_token raised.  "network_error": the POST never reached the
\* platform.  "response_lost": the platform issued new tokens and the
\* connection broke before the response arrived.  "bad_status": a status
\* other than 200/201.  "missing_tokens": a 200 without both tokens.
\* "store_write_error": the platform issued new tokens and
\* update_refresh_token raised.
RefreshOutcomes ==
    {"refreshed", "store_read_error", "network_error", "response_lost", "bad_status",
     "missing_tokens", "store_write_error"}

\* The platform issues new tokens only for the refresh token it issued last.
IssuesTokens(outcome) == outcome \in {"refreshed", "response_lost", "store_write_error"}

RefreshError(outcome) ==
    [type |-> IF outcome \in {"store_read_error", "store_write_error"}
              THEN "Exception" ELSE "ValueError",
     message |->
        CASE outcome = "store_read_error" -> <<"Failed to retrieve refresh token">>
          [] outcome = "store_write_error" -> <<"Failed to update refresh token">>
          [] outcome = "bad_status" -> <<"Failed to refresh X access token. Status: 400">>
          [] outcome = "missing_tokens" ->
                <<"X OAuth2 response is missing 'access_token' or 'refresh_token' fields">>
          [] OTHER -> <<"Network error refreshing X access token">>]

\* Mutant: a failed refresh returns instead of raising.
refresh_access_token_mutant_swallow(stored, issued, outcome) ==
    [raise |-> NoError,
     access_token |-> IF outcome = "refreshed" THEN issued + 1 ELSE None,
     stored |-> IF outcome = "refreshed" THEN issued + 1 ELSE stored,
     issued |-> IF IssuesTokens(outcome) THEN issued + 1 ELSE issued]

\* refresh_access_token: the tokens returned or the exception raised, and
\* what the document and the platform hold afterwards.  The k-th refresh
\* token the platform issues is k, and it comes with access token k.
refresh_access_token(stored, issued, outcome) ==
    [raise |-> IF outcome = "refreshed" THEN NoError ELSE RefreshError(outcome),
     access_token |-> IF outcome = "refreshed" THEN issued + 1 ELSE None,
     stored |-> IF outcome = "refreshed" THEN issued + 1 ELSE stored,
     issued |-> IF IssuesTokens(outcome) THEN issued + 1 ELSE issued]

\* How fetch_top_headlines can end.  "ok": status 200 and status "ok" in
\* the payload.  "network_error": requests.get raised.  "bad_status": a
\* status other than 200.  "error_payload": a status other than "ok" in
\* the payload.  "bad_json": response.json() raised.
FetchOutcomes == {"ok", "network_error", "bad_status", "error_payload", "bad_json"}

FetchError(outcome) ==
    [type |-> IF outcome = "bad_json" THEN "JSONDecodeError" ELSE "ValueError",
     message |->
        CASE outcome = "network_error" -> <<"Network error fetching news">>
          [] outcome = "bad_status" -> <<"Failed to fetch news. Status: 429">>
          [] outcome = "error_payload" -> <<"News API error">>
          [] OTHER -> <<"Expecting value">>]

\* fetch_top_headlines: the simplified articles or the exception raised.
fetch_top_headlines_mutant_swallow(outcome, payload) ==
    [raise |-> NoError,
     articles |-> IF outcome = "ok" THEN payload ELSE <<>>]

fetch_top_headlines(outcome, payload) ==
    [raise |-> IF outcome = "ok" THEN NoError ELSE FetchError(outcome),
     articles |-> IF outcome = "ok" THEN payload ELSE <<>>]

\* max_tweets=2 in run's call of generate_short_tweets_for_supporting_stories.
RUN_MAX_TWEETS == 2

\* Most articles in the payload of a run.
MaxRunArticles == 3

\* The payloads of a run: from no article to MaxRunArticles articles.
RunPayloads == {SubSeq(SupportingPool, 1, n) : n \in 0..MaxRunArticles}

\* run starts: nothing fetched, selected, generated or posted; the document
\* holds the refresh token the platform issued last, or an older one.
InitRun ==
    /\ pc = "step1"
    /\ news_response = "none"
    /\ articles = <<>>
    /\ access_token = None
    /\ x_refresh_token = 2
    /\ refresh_calls = 0
    /\ stored_refresh_token \in {1, 2}
    /\ big_story = Story(<<>>, <<>>, <<>>, <<>>, <<>>)
    /\ supporting_stories = <<>>
    /\ max_tweets = RUN_MAX_TWEETS
    /\ client_is_set \in BOOLEAN
    /\ prompt = <<>>
    /\ tried = <<>>
    /\ fallbacks = {}
    /\ gen_calls = 1
    /\ InitPublishIdle
    /\ InitTextIdle

\* run step 1: refresh_access_token().  A refresh token other than the one
\* issued last is refused by the platform.
RefreshToken ==
    /\ pc = "step1"
    /\ \E outcome \in RefreshOutcomes :
          /\ IssuesTokens(outcome) => stored_refresh_token = x_refresh_token
          /\ LET r == refresh_access_token(stored_refresh_token, x_refresh_token, outcome)
             IN  /\ access_token' = r.access_token
                 /\ stored_refresh_token' = r.stored
                 /\ x_refresh_token' = r.issued
                 /\ refresh_calls' = refresh_calls + 1
                 /\ IF r.raise # NoError
                    THEN RunFails(r.raise)
                    ELSE pc' = "step2" /\ UNCHANGED <<error, exit_status>>
    /\ UNCHANGED <<news_response, articles>>
    /\ UNCHANGED <<thread_tweets, short_tweets, tweet_ids, thread_ids, posted_short_ids,
                   i, requests, timeline, raised, calls>>
    /\ UNCHANGED textVars
    /\ UNCHANGED genVars

\* run step 2: fetch_top_headlines().
FetchHeadlines ==
    /\ pc = "step2"
    /\ \E outcome \in FetchOutcomes, payload \in RunPayloads :
          LET r == fetch_top_headlines(outcome, payload)
          IN  /\ news_response' = outcome
              /\ articles' = r.articles
              /\ IF r.raise # NoError
                 THEN RunFails(r.raise)
                 ELSE pc' = "step3" /\ UNCHANGED <<error, exit_status>>
    /\ UNCHANGED <<access_token, stored_refresh_token, x_refresh_token, refresh_calls>>
    /\ UNCHANGED <<thread_tweets, short_tweets, tweet_ids, thread_ids, posted_short_ids,
                   i, requests, timeline, raised, calls>>
    /\ UNCHANGED textVars
    /\ UNCHANGED genVars

\* The steps of run.  post_thread's raise for an empty list is not among
\* them: generate_thread_for_big_story returns the split of a non-empty
\* text for five tweets, or FALLBACK_THREAD, never an empty list.
NextRun ==
    \/ RefreshToken
    \/ FetchHeadlines
    \/ SelectStories
    \/ GenerateThreadEnter
    \/ AttemptThread
    \/ GenerateShortEnter
    \/ AttemptShort
    \/ PostThreadCall
    \/ PostShortCall
    \/ RunSummary

\* One run.
SpecRun == InitRun /\ [][NextRun]_vars

(***************************************************************************)
(* Claims about run                                                        *)
(***************************************************************************)

\* C13: every text handed to post_tweet in a run, for a thread tweet or a
\* standalone tweet, is non-empty and has at most MAX_TWEET_CHARS characters.
T_C13_PostedTextsWithinLimit ==
    \A k \in DOMAIN requests :
        /\ requests[k].text # <<>>
        /\ Len(requests[k].text) <= MAX_TWEET_CHARS

\* A run posted the fallback thread and then a standalone tweet that the
\* splitter had truncated.
W_C13_FallbackAndTruncatedPosted ==
    /\ pc = "run_done"
    /\ Len(requests) = 7
    /\ requests[1].text = FALLBACK_THREAD[1]
    /\ requests[5].text = FALLBACK_THREAD[5]
    /\ Len(requests[7].text) > MAX_TWEET_CHARS - 10
    /\ EndsWithEllipsis(requests[7].text)

\* C20: when the request of fetch_top_headlines fails, run ends with exit
\* status 1 and the exception of fetch_top_headlines, and nothing was
\* selected, generated or posted.
T_C20_FetchFailureIsFatal ==
    news_response \notin {"none", "ok"} =>
        /\ pc = "run_exit1"
        /\ exit_status = "1"
        /\ error = FetchError(news_response)
        /\ articles = <<>>
        /\ big_story = Story(<<>>, <<>>, <<>>, <<>>, <<>>)
        /\ supporting_stories = <<>>
        /\ prompt = <<>>
        /\ tried = <<>>
        /\ thread_tweets = <<>>
        /\ short_tweets = <<>>
        /\ requests = <<>>
        /\ timeline = <<>>

\* The token was refreshed and the payload of the news request then
\* reported an error.
W_C20_ErrorPayload ==
    /\ news_response = "error_payload"
    /\ access_token # None
    /\ pc = "run_exit1"

\* C21: in a run whose thread was posted completely (so the refresh, the
\* fetch, the selection and every POST of the thread succeeded), and so in
\* every run that returned, exactly five thread tweets were posted, as one
\* chain: the first with no reply target, each later one as a reply to the
\* one before; every tweet posted after them stands alone.
T_C21_FiveThreadTweetsPosted ==
    pc \in {"step7", "run_done"} =>
        /\ Len(thread_tweets) = 5
        /\ Len(thread_ids) = 5
        /\ Len(requests) >= 5
        /\ \A k \in 1..5 :
              /\ requests[k].outcome = "created"
              /\ requests[k].text = thread_tweets[k]
              /\ requests[k].id = thread_ids[k]
              /\ requests[k].reply = (IF k = 1 THEN None ELSE thread_ids[k - 1])
              /\ timeline[k].id = thread_ids[k]
              /\ timeline[k].reply = requests[k].reply
        /\ \A k \in 6..Len(requests) : requests[k].reply = None
        /\ \A k \in 6..Len(timeline) : timeline[k].reply = None

\* A run returned after posting five thread tweets only: the backend gave
\* two segments for the thread, which was padded, and every attempt for
\* the supporting stories failed.
W_C21_PaddedThreadPosted ==
    /\ pc = "run_done"
    /\ Len(requests) = 5
    /\ supporting_stories # <<>>
    /\ client_is_set
    /\ Len(tried) = 4
    /\ short_tweets = <<>>
    /\ thread_tweets[3] = Filler
    /\ thread_tweets[2] # Filler

\* The standalone tweets the platform was asked for in a run: every request
\* made after post_thread returned the thread's ids.
StandaloneRequests ==
    IF thread_ids = <<>> THEN <<>>
    ELSE SubSeq(requests, Len(thread_ids) + 1, Len(requests))

\* The smaller of max_tweets and the number of supporting stories.
StoriesUsed == IF max_tweets < Len(supporting_stories)
               THEN max_tweets ELSE Len(supporting_stories)

\* C23 as claimed: generate_short_tweets_for_supporting_stories returns at
\* most one tweet per supporting story, so the tweets returned, and the
\* standalone tweets posted, are never more than the smaller of max_tweets
\* and the number of supporting stories, and no filler tweet is posted for
\* a story that does not exist.
CE_C23_AtMostOneTweetPerStory ==
    /\ Len(short_tweets) <= StoriesUsed
    /\ pc \in {"step7", "run_done", "run_exit1"} =>
          /\ Len(StandaloneRequests) <= StoriesUsed
          /\ \A k \in DOMAIN StandaloneRequests :
                k > Len(supporting_stories) => StandaloneRequests[k].text # Filler

\* A run with one supporting story returned after posting two standalone
\* tweets, the second of them the filler tweet.
FillerPostedForMissingStory ==
    /\ pc = "run_done"
    /\ Len(supporting_stories) = 1
    /\ Len(posted_short_ids) = 2
    /\ StandaloneRequests[2].text = Filler
    /\ StandaloneRequests[1].text # Filler

\* C24 as claimed: whatever step of run fails, the refresh token in the
\* store stays the most recent refresh token the platform issued: no step
\* of a run that found the most recent token in the store leaves an older
\* one there.
CE_C24_StoredTokenIsLatest ==
    [][stored_refresh_token = x_refresh_token
          => stored_refresh_token' = x_refresh_token']_vars

\* Step 1 of run is over.
RefreshOver == pc # "step1"

\* Something was fetched, generated or posted.
WorkStarted ==
    \/ news_response # "none"
    \/ prompt # <<>>
    \/ tried # <<>>
    \/ thread_tweets # <<>>
    \/ short_tweets # <<>>
    \/ requests # <<>>

ShortGenerationOver ==
    \/ supporting_stories = <<>> /\ short_tweets = <<>>
    \/ LET call == CallState(client_is_set, tried)
       IN  /\ prompt = ShortPrompt(supporting_stories, max_tweets)
           /\ call.state # "next"
           /\ short_tweets = GenerateShortResult(max_tweets, call).value

\* C26: the stages of run come in order: a POST is made only after both
\* generators have returned, so steps 1 to 5 are over and the thread has
\* its five tweets; the first five POSTs are the thread's, in order; a
\* standalone tweet is posted only after all five thread tweets were
\* created on the platform.
T_C26_StagesInOrder ==
    /\ requests # <<>> =>
          /\ pc \in {"step6_loop", "step7", "run_done", "run_exit1"}
          /\ Len(thread_tweets) = THREAD_COUNT
          /\ ShortGenerationOver
    /\ \A k \in DOMAIN requests :
          IF k <= THREAD_COUNT
          THEN requests[k].text = thread_tweets[k]
          ELSE /\ requests[k].text = short_tweets[k - THREAD_COUNT]
               /\ requests[k].reply = None
               /\ Len(thread_ids) = THREAD_COUNT
               /\ \A j \in 1..THREAD_COUNT :
                     /\ requests[j].outcome = "created"
                     /\ timeline[j].id = thread_ids[j]
                     /\ timeline[j].text = thread_tweets[j]

\* The first standalone tweet has just been posted, after the five thread
\* tweets, and the second is still to come.
W_C26_StandaloneAfterThread ==
    /\ pc = "step7"
    /\ Len(requests) = THREAD_COUNT + 1
    /\ requests[THREAD_COUNT + 1].outcome = "created"
    /\ Len(short_tweets) = 2
    /\ Len(timeline) = THREAD_COUNT + 1
    /\ tried # <<>>

\* A POST of a thread tweet failed.
ThreadFailed ==
    \E k \in DOMAIN requests :
        k <= THREAD_COUNT /\ requests[k].outcome # "created"

\* C27 as claimed: when the POST of a thread tweet fails, run ends with
\* exit status 1, no standalone tweet is posted, and the platform holds
\* the thread tweets before the failed one and no other tweet of the run.
CE_C27_OnlyEarlierTweetsPublished ==
    ThreadFailed =>
        /\ pc = "run_exit1"
        /\ exit_status = "1"
        /\ Len(requests) <= THREAD_COUNT
        /\ posted_short_ids = <<>>
        /\ Len(timeline) = Len(requests) - 1
        /\ \A k \in DOMAIN timeline : timeline[k].text = thread_tweets[k]

\* C27 as amended: when the POST of a thread tweet fails, run ends with
\* exit status 1 and the exception of post_thread; the failed POST is the
\* last one, so no standalone tweet is posted; every POST before it created
\* its tweet; the platform holds the thread tweets before the failed one,
\* in order, followed by the failed one when the platform had created it
\* before the response was lost, and no other tweet of the run.
T_C27_ThreadFailureEndsRun ==
    ThreadFailed =>
        LET last == requests[Len(requests)]
        IN  /\ pc = "run_exit1"
            /\ exit_status = "1"
            /\ error = PostThreadError(PostTweetError(last.outcome), tweet_ids)
            /\ Len(requests) <= THREAD_COUNT
            /\ posted_short_ids = <<>>
            /\ thread_ids = <<>>
            /\ last.outcome # "created"
            /\ \A k \in 1..(Len(requests) - 1) :
                  /\ requests[k].outcome = "created"
                  /\ timeline[k].id = requests[k].id
            /\ Len(timeline) = Len(requests) - 1
                                  + (IF last.outcome = "response_lost" THEN 1 ELSE 0)
            /\ \A k \in DOMAIN timeline : timeline[k].text = thread_tweets[k]

\* The third POST of a thread failed after the platform had created the
\* tweet: the platform holds three tweets of the run, which knows of two.
W_C27_FailedTweetIsPublished ==
    /\ pc = "run_exit1"
    /\ Len(requests) = 3
    /\ requests[3].outcome = "response_lost"
    /\ Len(tweet_ids) = 2
    /\ Len(timeline) = 3
    /\ timeline[3].text = thread_tweets[3]
    /\ short_tweets # <<>>
====
